---- MODULE Spec2Model ----
(***************************************************************************)
(* Model of the discount function cart_lines_discounts_generate_run        *)
(* (test-app/extensions/discount-function).  The function is a pure        *)
(* transform of its input; the state machine draws an input and applies    *)
(* the function once.                                                      *)
(*                                                                         *)
(* Conventions:                                                            *)
(*   - Option<T> is a set with at most one element: None == {},            *)
(*     Some(v) == {v}.                                                     *)
(*   - the text of the metafield value is a sequence of one-character      *)
(*     strings, so that str::parse::<f64> can be modelled on its grammar.  *)
(*   - an f64 is a record [kind, neg, digits, exp], the shortest decimal   *)
(*     that parses to it; see the f64 section.                             *)
(***************************************************************************)
EXTENDS Integers, Sequences, FiniteSets, TLC

\* ------------------------------------------------------------------ bounds
MaxLines == 3

MaxClasses == 2

\* --------------------------------------------------------------- Option<T>
None == {}

Some(v) == {v}

Unwrap(o) == CHOOSE v \in o : TRUE

\* --------------------------------------------------------------------- f64
\* An f64 is held as the decimal that names it: its shortest round-trip
\* decimal, which is the text Display prints and which parse maps back to
\* the same f64.  [kind, neg, digits, exp]: kind "fin" stands for
\* (-1)^neg * digits * 10^exp, digits a sequence of decimal digits, most
\* significant first, with no leading and no trailing zero (zero is the
\* empty sequence with exp 0); kinds "inf" and "nan" are the IEEE specials.

Min(S) == CHOOSE i \in S : \A j \in S : i <= j

Max(S) == CHOOSE i \in S : \A j \in S : i >= j

NaN == [kind |-> "nan", neg |-> FALSE, digits |-> <<>>, exp |-> 0]

Inf(negative) == [kind |-> "inf", neg |-> negative, digits |-> <<>>, exp |-> 0]

Zero(negative) == [kind |-> "fin", neg |-> negative, digits |-> <<>>, exp |-> 0]

\* The decimal ds * 10^x with its leading and trailing zeros removed.
Decimal(negative, ds, x) ==
    LET nz == { i \in 1..Len(ds) : ds[i] /= 0 }
    IN  IF nz = {} THEN Zero(negative)
        ELSE [kind |-> "fin", neg |-> negative,
              digits |-> SubSeq(ds, Min(nz), Max(nz)),
              exp |-> x + (Len(ds) - Max(nz))]

\* The decimal exponent of the leading digit of a non-zero finite x.
Order(x) == Len(x.digits) + x.exp - 1

\* -1, 0, 1: the digit sequences compared as the fractions 0.a and 0.b.
DigitsCmp(a, b) ==
    LET n    == IF Len(a) > Len(b) THEN Len(a) ELSE Len(b)
        A(i) == IF i <= Len(a) THEN a[i] ELSE 0
        B(i) == IF i <= Len(b) THEN b[i] ELSE 0
        diff == { i \in 1..n : A(i) /= B(i) }
    IN  IF diff = {} THEN 0
        ELSE IF A(Min(diff)) < B(Min(diff)) THEN 0 - 1 ELSE 1

\* The digits of twice the number with digits ds (one digit longer, the
\* leading one possibly 0): the carry into a place is 1 iff the digit to its
\* right is 5 or more.
DoubleDigits(ds) ==
    LET D(i) == IF i >= 1 /\ i <= Len(ds) THEN ds[i] ELSE 0
    IN  [ i \in 1..(Len(ds) + 1) |->
            ((2 * D(i - 1)) % 10) + (IF D(i) >= 5 THEN 1 ELSE 0) ]

\* ---------------------------------------------- natural numbers of any size
\* A natural number is a sequence of limbs in base 10^4, least significant
\* first, without a high zero limb; zero is the empty sequence.
Base == 10000

SmallPow10(t) == IF t = 0 THEN 1 ELSE IF t = 1 THEN 10 ELSE IF t = 2 THEN 100 ELSE 1000

BigNorm(a) ==
    LET nz == { i \in 1..Len(a) : a[i] /= 0 }
    IN  IF nz = {} THEN <<>> ELSE SubSeq(a, 1, Max(nz))

BigOfDigits(ds) ==
    LET n    == Len(ds)
        R(r) == IF r < n THEN ds[n - r] ELSE 0     \* the digit of weight 10^r
    IN  BigNorm([ j \in 1..((n + 3) \div 4) |->
                    R(4 * j - 4) + 10 * R(4 * j - 3)
                      + 100 * R(4 * j - 2) + 1000 * R(4 * j - 1) ])

BigOfNat(n) == BigNorm(<<n % Base, n \div Base>>)

\* The decimal digits of a, most significant first, no leading zero.
BigDigits(a) ==
    LET n  == 4 * Len(a)
        ds == [ i \in 1..n |->
                  LET r == n - i IN (a[(r \div 4) + 1] \div SmallPow10(r % 4)) % 10 ]
        nz == { i \in 1..n : ds[i] /= 0 }
    IN  IF nz = {} THEN <<>> ELSE SubSeq(ds, Min(nz), n)

BigDecLen(a) == Len(BigDigits(a))

BigCmp(a, b) ==
    IF Len(a) /= Len(b) THEN (IF Len(a) < Len(b) THEN 0 - 1 ELSE 1)
    ELSE LET diff == { i \in 1..Len(a) : a[i] /= b[i] }
         IN  IF diff = {} THEN 0
             ELSE IF a[Max(diff)] < b[Max(diff)] THEN 0 - 1 ELSE 1

\* The limb operations work on the limbs lo..hi by halves, so that the depth
\* of the evaluation grows with the logarithm of the length.  Each gives the
\* limbs of the result and the carry out of the range.

RECURSIVE BigAddRange(_, _, _, _, _)
BigAddRange(a, b, lo, hi, carry) ==
    IF lo > hi THEN [limbs |-> <<>>, carry |-> carry]
    ELSE IF lo = hi
    THEN LET v == (IF lo <= Len(a) THEN a[lo] ELSE 0)
                  + (IF lo <= Len(b) THEN b[lo] ELSE 0) + carry
         IN  [limbs |-> <<v % Base>>, carry |-> v \div Base]
    ELSE LET mid == (lo + hi) \div 2
             l   == BigAddRange(a, b, lo, mid, carry)
             h   == BigAddRange(a, b, mid + 1, hi, l.carry)
         IN  [limbs |-> l.limbs \o h.limbs, carry |-> h.carry]

BigAdd(a, b) ==
    IF a = <<>> THEN b
    ELSE IF b = <<>> THEN a
    ELSE
    LET n == IF Len(a) > Len(b) THEN Len(a) ELSE Len(b)
        s == BigAddRange(a, b, 1, n, 0)
    IN  IF s.carry = 0 THEN s.limbs ELSE Append(s.limbs, s.carry)

\* a - b, for a >= b.
RECURSIVE BigSubRange(_, _, _, _, _)
BigSubRange(a, b, lo, hi, borrow) ==
    IF lo > hi THEN [limbs |-> <<>>, carry |-> borrow]
    ELSE IF lo = hi
    THEN LET v == a[lo] - (IF lo <= Len(b) THEN b[lo] ELSE 0) - borrow
         IN  [limbs |-> <<(v + Base) % Base>>, carry |-> IF v < 0 THEN 1 ELSE 0]
    ELSE LET mid == (lo + hi) \div 2
             l   == BigSubRange(a, b, lo, mid, borrow)
             h   == BigSubRange(a, b, mid + 1, hi, l.carry)
         IN  [limbs |-> l.limbs \o h.limbs, carry |-> h.carry]

BigSub(a, b) ==
    IF b = <<>> THEN a ELSE BigNorm(BigSubRange(a, b, 1, Len(a), 0).limbs)

\* a * c, for 0 <= c <= Base.
RECURSIVE BigMulSmallRange(_, _, _, _, _)
BigMulSmallRange(a, c, lo, hi, carry) ==
    IF lo > hi THEN [limbs |-> <<>>, carry |-> carry]
    ELSE IF lo = hi
    THEN LET v == a[lo] * c + carry
         IN  [limbs |-> <<v % Base>>, carry |-> v \div Base]
    ELSE LET mid == (lo + hi) \div 2
             l   == BigMulSmallRange(a, c, lo, mid, carry)
             h   == BigMulSmallRange(a, c, mid + 1, hi, l.carry)
         IN  [limbs |-> l.limbs \o h.limbs, carry |-> h.carry]

BigMulSmall(a, c) ==
    IF c = 0 \/ a = <<>> THEN <<>>
    ELSE LET p == BigMulSmallRange(a, c, 1, Len(a), 0)
         IN  IF p.carry = 0 THEN p.limbs ELSE Append(p.limbs, p.carry)

\* The quotient and the remainder of a by c, for 0 < c <= Base: the limbs
\* hi..lo from the top down, carry the remainder so far.
RECURSIVE BigDivSmallRange(_, _, _, _, _)
BigDivSmallRange(a, c, lo, hi, carry) ==
    IF lo > hi THEN [limbs |-> <<>>, carry |-> carry]
    ELSE IF lo = hi
    THEN LET v == carry * Base + a[lo]
         IN  [limbs |-> <<v \div c>>, carry |-> v % c]
    ELSE LET mid == (lo + hi) \div 2
             h   == BigDivSmallRange(a, c, mid + 1, hi, carry)
             l   == BigDivSmallRange(a, c, lo, mid, h.carry)
         IN  [limbs |-> l.limbs \o h.limbs, carry |-> l.carry]

BigDivSmall(a, c) ==
    IF a = <<>> THEN [q |-> <<>>, r |-> 0]
    ELSE LET d == BigDivSmallRange(a, c, 1, Len(a), 0)
         IN  [q |-> BigNorm(d.limbs), r |-> d.carry]

BigMulPow10(a, n) ==
    IF a = <<>> THEN <<>>
    ELSE [ i \in 1..(n \div 4) |-> 0 ] \o BigMulSmall(a, SmallPow10(n % 4))

RECURSIVE SmallPow2(_)
SmallPow2(t) == IF t = 0 THEN 1 ELSE 2 * SmallPow2(t - 1)

RECURSIVE BigMulPow2(_, _)
BigMulPow2(a, n) ==
    IF a = <<>> THEN <<>>
    ELSE IF n <= 13 THEN BigMulSmall(a, SmallPow2(n))
    ELSE BigMulPow2(BigMulPow2(a, n \div 2), n - (n \div 2))

\* The least e >= from with a < p * 2^(e - from), where p = 2^from <= a.
RECURSIVE BitLenFrom(_, _, _)
BitLenFrom(a, p, from) ==
    IF BigCmp(a, p) < 0 THEN from
    ELSE BitLenFrom(a, BigMulSmall(p, 2), from + 1)

\* The number of binary digits of a.  A number of n decimal digits is at
\* least 10^(n-1), which is at least 2^floor(3.3219 (n-1)).
BigBitLen(a) ==
    IF a = <<>> THEN 0
    ELSE LET low == ((BigDecLen(a) - 1) * 33219) \div 10000
         IN  BitLenFrom(a, BigMulPow2(<<1>>, low), low)

\* The largest c in lo..hi with b * c <= cur, given b * lo <= cur.
RECURSIVE LimbQuotIn(_, _, _, _)
LimbQuotIn(cur, b, lo, hi) ==
    IF lo = hi THEN lo
    ELSE LET mid == (lo + hi + 1) \div 2
         IN  IF BigCmp(BigMulSmall(b, mid), cur) <= 0
             THEN LimbQuotIn(cur, b, mid, hi)
             ELSE LimbQuotIn(cur, b, lo, mid - 1)

\* The quotient of cur by b, known to be at most hi (hi < Base).
LimbQuot(cur, b, hi) ==
    IF BigCmp(cur, b) < 0 THEN 0 ELSE LimbQuotIn(cur, b, 1, hi)

\* Long division: the limbs i..1 of a are brought down onto rem in turn.
RECURSIVE BigDivModFrom(_, _, _, _)
BigDivModFrom(a, b, i, rem) ==
    IF i = 0 THEN [q |-> <<>>, r |-> rem]
    ELSE LET cur  == BigNorm(<<a[i]>> \o rem)
             c    == LimbQuot(cur, b, Base - 1)
             rest == BigDivModFrom(a, b, i - 1, BigSub(cur, BigMulSmall(b, c)))
         IN  [q |-> rest.q \o <<c>>, r |-> rest.r]

\* The quotient and the remainder of a by b, for b > 0.
BigDivMod(a, b) ==
    IF Len(a) < Len(b) THEN [q |-> <<>>, r |-> a]
    ELSE LET i0 == Len(a) - Len(b) + 1
             d  == BigDivModFrom(a, b, i0, SubSeq(a, i0 + 1, Len(a)))
         IN  [q |-> BigNorm(d.q), r |-> d.r]

\* ------------------------------------------------ IEEE 754 binary64 rounding
\* A finite non-zero f64 is k * 2^q with 0 < k < 2^53 and q >= MinExp2, and
\* k >= 2^52 unless q = MinExp2 (the subnormals); q <= MaxExp2.
MantissaBits == 53

MinExp2 == -1074

MaxExp2 == 971

Two52 == BigMulPow2(<<1>>, MantissaBits - 1)

Two53 == BigMulPow2(<<1>>, MantissaBits)

Two54 == BigMulPow2(<<1>>, MantissaBits + 1)

\* The mantissa k, exact or one above the rounding limit, at the exponent q.
Renormalize(k, q) ==
    IF k = Two53 THEN [k |-> Two52, q |-> q + 1] ELSE [k |-> k, q |-> q]

\* lo is the quotient and the remainder of the division by 2 * half that
\* drops the guard bits, sticky tells a non-zero remainder below them: the
\* mantissa rounded to nearest, ties to even.
RoundHalfEven(lo, half, sticky, q) ==
    LET odd == lo.q /= <<>> /\ lo.q[1] % 2 = 1
        up  == lo.r > half \/ (lo.r = half /\ (sticky \/ odd))
    IN  Renormalize(IF up THEN BigAdd(lo.q, <<1>>) ELSE lo.q, q)

\* dm is the quotient (of 54 or 55 bits) and the remainder of the scaled
\* division, guard its number of guard bits.
RoundGuarded(dm, q1, guard) ==
    RoundHalfEven(BigDivSmall(dm.q, 2 * guard), guard, dm.r /= <<>>, q1 + guard)

RoundQuotient(dm, q1) ==
    RoundGuarded(dm, q1, IF BigCmp(dm.q, Two54) >= 0 THEN 2 ELSE 1)

\* num / den rounded at the binary exponent q1 + 1 or q1 + 2.
QuantizeAt(num, den, q1) ==
    RoundQuotient(BigDivMod(IF q1 < 0 THEN BigMulPow2(num, 0 - q1) ELSE num,
                            IF q1 > 0 THEN BigMulPow2(den, q1) ELSE den),
                  q1)

\* The binary exponent is estimated from the bit lengths and is never below
\* that of the subnormals.
Quantize(num, den) ==
    QuantizeAt(num, den,
               Max({MinExp2 - 1,
                    BigBitLen(num) - BigBitLen(den) - (MantissaBits + 1)}))

\* The f64 nearest to ds * 10^x (ds non-empty, without leading zero), ties to
\* the even mantissa: [k, q], k = <<>> on underflow to zero; q > MaxExp2
\* tells the overflow to infinity.
ToBinary(ds, x) ==
    Quantize(IF x >= 0 THEN BigMulPow10(BigOfDigits(ds), x) ELSE BigOfDigits(ds),
             IF x >= 0 THEN <<1>> ELSE BigMulPow10(<<1>>, 0 - x))

\* The digit sequence ds, read as an integer, plus one.
IncrementDigits(ds) ==
    LET n9 == { i \in 1..Len(ds) : ds[i] /= 9 }
    IN  IF n9 = {} THEN <<1>> \o [ i \in 1..Len(ds) |-> 0 ]
        ELSE [ i \in 1..Len(ds) |->
                 IF i < Max(n9) THEN ds[i]
                 ELSE IF i = Max(n9) THEN ds[i] + 1 ELSE 0 ]

\* The digit loop of flt2dec's format_shortest: r / s is what is left of the
\* value, mp / s and mm / s the distances to the upper and the lower end of
\* the rounding interval, which belong to it iff inclusive.  The digits
\* generated, and whether the last one is to be rounded up.
RECURSIVE ShortestDigits(_, _, _, _, _, _)
DigitStep(d, r1, s, mp, mm, inclusive, acc) ==
    LET lim  == IF inclusive THEN 1 ELSE 0
        down == BigCmp(r1, mm) < lim
        up   == BigCmp(s, BigAdd(r1, mp)) < lim
    IN  IF down \/ up
        THEN [buf |-> Append(acc, d),
              up  |-> up /\ (~down \/ BigCmp(BigMulSmall(r1, 2), s) >= 0)]
        ELSE ShortestDigits(BigMulSmall(r1, 10), s, BigMulSmall(mp, 10),
                            BigMulSmall(mm, 10), inclusive, Append(acc, d))

NextDigit(d, r, s, mp, mm, inclusive, acc) ==
    DigitStep(d, BigSub(r, BigMulSmall(s, d)), s, mp, mm, inclusive, acc)

ShortestDigits(r, s, mp, mm, inclusive, acc) ==
    NextDigit(LimbQuot(r, s, 9), r, s, mp, mm, inclusive, acc)

\* g is the outcome of the digit loop, kk the decimal exponent of the point
\* before its first digit.
ShortestResult(negative, g, kk) ==
    Decimal(negative,
            IF g.up THEN IncrementDigits(g.buf) ELSE g.buf,
            kk - Len(g.buf))

\* The estimate est of the decimal exponent is at most one too small.
ShortestBumped(negative, inclusive, r, s, mp, mm, est, bump) ==
    ShortestResult(negative,
                   ShortestDigits(BigMulSmall(r, IF bump THEN 1 ELSE 10), s,
                                  BigMulSmall(mp, IF bump THEN 1 ELSE 10),
                                  BigMulSmall(mm, IF bump THEN 1 ELSE 10),
                                  inclusive, <<>>),
                   IF bump THEN est + 1 ELSE est)

ShortestScaled(negative, inclusive, r, s, mp, mm, est) ==
    ShortestBumped(negative, inclusive, r, s, mp, mm, est,
                   BigCmp(s, BigAdd(r, mp)) < (IF inclusive THEN 1 ELSE 0))

\* r, mp, mm or s is scaled by the power of ten of the estimate.
ShortestFrom(negative, inclusive, r, s, mp, mm, est) ==
    ShortestScaled(negative, inclusive,
                   IF est < 0 THEN BigMulPow10(r, 0 - est) ELSE r,
                   IF est > 0 THEN BigMulPow10(s, est) ELSE s,
                   IF est < 0 THEN BigMulPow10(mp, 0 - est) ELSE mp,
                   IF est < 0 THEN BigMulPow10(mm, 0 - est) ELSE mm,
                   est)

ShortestOf(negative, inclusive, r, s, mp, mm) ==
    ShortestFrom(negative, inclusive, r, s, mp, mm,
                 BigDecLen(BigAdd(r, mp)) - BigDecLen(s))

\* k * 2^q as the fraction r / s with the half-distances mp / s and mm / s to
\* its neighbours; sh is 2 when the lower neighbour is half as far.
ShortestShifted(negative, k, q, sh) ==
    ShortestOf(negative, k[1] % 2 = 0,
               IF q >= 0 THEN BigMulPow2(k, q + sh) ELSE BigMulPow2(k, sh),
               IF q >= 0 THEN BigMulPow2(<<1>>, sh) ELSE BigMulPow2(<<1>>, sh - q),
               IF q >= 0 THEN BigMulPow2(<<1>>, q + sh - 1)
                         ELSE BigMulPow2(<<1>>, sh - 1),
               IF q >= 0 THEN BigMulPow2(<<1>>, q) ELSE <<1>>)

\* The shortest decimal that parses back to k * 2^q, the closest to it among
\* the shortest (flt2dec decode + format_shortest).
Shortest(negative, k, q) ==
    ShortestShifted(negative, k, q, IF k = Two52 THEN 2 ELSE 1)

\* The first 16 digits of 2^1024 - 2^970, the least decimal that rounds to
\* infinity.
OverflowDigits16 == <<1, 7, 9, 7, 6, 9, 3, 1, 3, 4, 8, 6, 2, 3, 1, 5>>

\* The f64 k * 2^q of the record b, as the decimal that names it.
OfBinary(negative, b) ==
    IF b.k = <<>> THEN Zero(negative)
    ELSE IF b.q > MaxExp2 THEN Inf(negative)
    ELSE Shortest(negative, b.k, b.q)

\* The f64 a decimal of any length and exponent rounds to.
Rounded(negative, ds, x) == OfBinary(negative, ToBinary(ds, x))

\* The f64 nearest to the decimal c.  A decimal of at most 15 digits in the
\* range of the normal numbers names its own f64; a decimal of order above
\* 308 is out of range, one of order below -324 rounds to zero.
Nearest(c) ==
    IF c.digits = <<>> THEN c
    ELSE IF Order(c) > 308 THEN Inf(c.neg)
    ELSE IF Order(c) < 0 - 324 THEN Zero(c.neg)
    ELSE IF Len(c.digits) <= 15 /\ Order(c) >= 0 - 307 /\ Order(c) < 308 THEN c
    ELSE IF /\ Len(c.digits) <= 16 /\ Order(c) = 308
            /\ DigitsCmp(c.digits, OverflowDigits16) > 0
         THEN Inf(c.neg)
    ELSE IF Len(c.digits) <= 15 /\ Order(c) = 308 THEN c
    ELSE Rounded(c.neg, c.digits, c.exp)

\* The f64 nearest to (-1)^negative * ds * 10^x.
Fin(negative, ds, x) == Nearest(Decimal(negative, ds, x))

F(n) == Fin(FALSE, BigDigits(BigOfNat(n)), 0)

\* Twice k * 2^q: the mantissa of a subnormal is doubled, the exponent of a
\* normal number is raised.
DoubleBinary(b) ==
    IF b.q = MinExp2 /\ BigCmp(b.k, Two52) < 0
    THEN [k |-> BigMulSmall(b.k, 2), q |-> MinExp2]
    ELSE [k |-> b.k, q |-> b.q + 1]

\* discount_percentage * 2.0: exact in binary, so on the normal numbers the
\* f64 nearest to twice the decimal; on the subnormals the mantissa doubled.
Times2(x) ==
    IF x.kind /= "fin" \/ x.digits = <<>> THEN x
    ELSE IF Order(x) >= 0 - 307
         THEN Fin(x.neg, DoubleDigits(x.digits), x.exp)
    ELSE OfBinary(x.neg, DoubleBinary(ToBinary(x.digits, x.exp)))

\* -1, 0, 1: the sign of x, zero for both zeros.
Sign(x) ==
    IF x.kind = "fin" /\ x.digits = <<>> THEN 0
    ELSE IF x.neg THEN 0 - 1 ELSE 1

\* -1, 0, 1: |a| against |b|, for non-zero a and b, neither NaN.
MagnitudeCmp(a, b) ==
    IF a.kind = "inf" \/ b.kind = "inf"
    THEN (IF a.kind = b.kind THEN 0 ELSE IF a.kind = "inf" THEN 1 ELSE 0 - 1)
    ELSE IF Order(a) /= Order(b) THEN (IF Order(a) < Order(b) THEN 0 - 1 ELSE 1)
    ELSE DigitsCmp(a.digits, b.digits)

\* f64::partial_cmp, as derived for Decimal(f64): "None" when either is NaN.
partial_cmp(a, b) ==
    IF a.kind = "nan" \/ b.kind = "nan" THEN "None"
    ELSE LET c == IF Sign(a) /= Sign(b)
                  THEN (IF Sign(a) < Sign(b) THEN 0 - 1 ELSE 1)
                  ELSE IF Sign(a) = 0 THEN 0
                  ELSE Sign(a) * MagnitudeCmp(a, b)
         IN  IF c < 0 THEN "Less" ELSE IF c > 0 THEN "Greater" ELSE "Equal"

\* ------------------------------------------------- str::parse::<f64>
Digits == {"0", "1", "2", "3", "4", "5", "6", "7", "8", "9"}

DigitVal(c) ==
    CASE c = "0" -> 0 [] c = "1" -> 1 [] c = "2" -> 2 [] c = "3" -> 3
      [] c = "4" -> 4 [] c = "5" -> 5 [] c = "6" -> 6 [] c = "7" -> 7
      [] c = "8" -> 8 [] c = "9" -> 9

\* The number of ASCII digits of s from position i on.
DigitRun(s, i) ==
    LET stop == { j \in i..Len(s) : s[j] \notin Digits }
    IN  IF stop = {} THEN (IF i > Len(s) THEN 0 ELSE Len(s) - i + 1)
        ELSE Min(stop) - i

\* parse_scientific: the value of the n exponent digits of s from position i
\* on; a digit is taken in only while the value is below 0x10000.
RECURSIVE ExponentValue(_, _, _, _)
ExponentValue(s, i, n, acc) ==
    IF n = 0 THEN acc
    ELSE ExponentValue(s, i + 1, n - 1,
                       IF acc < 65536 THEN 10 * acc + DigitVal(s[i]) ELSE acc)

\* ASCII lower case of the letters the special values are spelt with.
Lower(c) ==
    CASE c = "I" -> "i" [] c = "N" -> "n" [] c = "F" -> "f" [] c = "A" -> "a"
      [] c = "T" -> "t" [] c = "Y" -> "y" [] OTHER -> c

LowerAll(s) == [i \in 1..Len(s) |-> Lower(s[i])]

\* parse_inf_nan: "nan", "inf", "infinity", in any letter case.
parse_inf_nan(s, negative) ==
    LET l == LowerAll(s)
    IN  IF l = <<"n", "a", "n">> THEN Some(NaN)
        ELSE IF l = <<"i", "n", "f">>
                \/ l = <<"i", "n", "f", "i", "n", "i", "t", "y">>
             THEN Some(Inf(negative))
        ELSE None

\* parse_number: digits [ '.' digits ] [ (e|E) [sign] digits ], at least one
\* digit in the mantissa, at least one in a written exponent, nothing after.
parse_number(s, negative) ==
    LET ni       == DigitRun(s, 1)
        hasDot   == ni + 1 <= Len(s) /\ s[ni + 1] = "."
        nf       == IF hasDot THEN DigitRun(s, ni + 2) ELSE 0
        expAt    == IF hasDot THEN ni + 2 + nf ELSE ni + 1
        hasExp   == expAt <= Len(s) /\ s[expAt] \in {"e", "E"}
        hasESign == hasExp /\ expAt + 1 <= Len(s) /\ s[expAt + 1] \in {"+", "-"}
        expNeg   == hasESign /\ s[expAt + 1] = "-"
        expDigAt == IF hasESign THEN expAt + 2 ELSE expAt + 1
        ne       == IF hasExp THEN DigitRun(s, expDigAt) ELSE 0
        endAt    == IF hasExp THEN expDigAt + ne ELSE expAt
        mant     == [ j \in 1..(ni + nf) |->
                        DigitVal(s[IF j <= ni THEN j ELSE j + 1]) ]
        expNum   == (IF expNeg THEN 0 - 1 ELSE 1) * ExponentValue(s, expDigAt, ne, 0)
    IN  IF ni + nf = 0 THEN None
        ELSE IF hasExp /\ ne = 0 THEN None
        ELSE IF endAt /= Len(s) + 1 THEN None
        ELSE Some(Fin(negative, mant, expNum - nf))

\* m.value().parse::<f64>().ok()
ParseF64(s) ==
    IF s = <<>> THEN None
    ELSE LET negative == s[1] = "-"
             rest     == IF s[1] \in {"-", "+"} THEN Tail(s) ELSE s
         IN  IF rest = <<>> THEN None
             ELSE IF parse_number(rest, negative) /= None
                  THEN parse_number(rest, negative)
             ELSE parse_inf_nan(rest, negative)

\* --------------------------------------------------- Display for f64
DigitChar(d) ==
    CASE d = 0 -> "0" [] d = 1 -> "1" [] d = 2 -> "2" [] d = 3 -> "3"
      [] d = 4 -> "4" [] d = 5 -> "5" [] d = 6 -> "6" [] d = 7 -> "7"
      [] d = 8 -> "8" [] d = 9 -> "9"

\* The text of the digits i..j of ds.
RECURSIVE DigitsStr(_, _, _)
DigitsStr(ds, i, j) ==
    IF i > j THEN ""
    ELSE IF i = j THEN DigitChar(ds[i])
    ELSE LET mid == (i + j) \div 2
         IN  DigitsStr(ds, i, mid) \o DigitsStr(ds, mid + 1, j)

\* n zeros.
RECURSIVE Zeros(_)
Zeros(n) ==
    IF n <= 0 THEN ""
    ELSE LET h == Zeros(n \div 2)
         IN  h \o h \o (IF n % 2 = 1 THEN "0" ELSE "")

\* format!("{}", x): the shortest round-trip digits, written without an
\* exponent and without a trailing ".0".
Display(x) ==
    IF x.kind = "nan" THEN "NaN"
    ELSE IF x.kind = "inf" THEN (IF x.neg THEN "-inf" ELSE "inf")
    ELSE LET n == Len(x.digits)
         IN  (IF x.neg THEN "-" ELSE "")
             \o (IF n = 0 THEN "0"
                 ELSE IF x.exp >= 0
                      THEN DigitsStr(x.digits, 1, n) \o Zeros(x.exp)
                 ELSE IF n + x.exp > 0
                      THEN DigitsStr(x.digits, 1, n + x.exp) \o "."
                           \o DigitsStr(x.digits, n + x.exp + 1, n)
                 ELSE "0." \o Zeros(0 - (n + x.exp)) \o DigitsStr(x.digits, 1, n))

\* ----------------------------------------------------------- input schema
DiscountClass == {"Order", "Product", "Shipping"}

\* The subtotal amounts a cart line is drawn with (5.00 and 20.00 are the
\* amounts of the documented example; NaN is the incomparable amount).
Amounts == {F(5), F(20), NaN}

\* The texts a metafield value is drawn with.
MetafieldValues ==
    { <<"1", "5">>, <<"a", "b", "c">>, <<>>, <<"1", "0">>, <<"0">>,
      <<"1", "2", ".", "5">>, <<".", "5">>, <<"5", ".">>, <<".">>,
      <<"-", "5">>, <<"+", "5">>, <<"-">>, <<"1", "e", "1">>, <<"1", "e">>,
      <<" ", "1", "5">>, <<"1", "5", "%">>, <<"n", "a", "n">>,
      <<"i", "n", "f">>, <<"1", "e", "4", "0", "0">>,
      <<"1", "e", "-", "4", "0", "0">>, <<"1", "e", "3", "0", "8">> }

\* The decimal text of a natural number.
NatToStr(n) == DigitsStr(BigDigits(BigOfNat(n)), 1, Len(BigDigits(BigOfNat(n))))

LineId(i) == "gid://shopify/CartLine/" \o NatToStr(i)

CartLine(i, a) ==
    [id |-> LineId(i), cost |-> [subtotal_amount |-> [amount |-> a]]]

\* Carts of n lines: the line at position i carries the id LineId(i).
CartsOfLen(n) ==
    { [i \in 1..n |-> CartLine(i, f[i])] : f \in [1..n -> Amounts] }

Carts == UNION { CartsOfLen(n) : n \in 0..MaxLines }

ClassLists == UNION { [1..n -> DiscountClass] : n \in 0..MaxClasses }

Metafields == {None} \cup { Some([value |-> s]) : s \in MetafieldValues }

Inputs ==
    [cart : [lines : Carts],
     discount : [discount_classes : ClassLists, metafield : Metafields]]

\* ------------------------------------------------------------- the function
Ok(v) == [tag |-> "Ok", value |-> v]

Err(e) == [tag |-> "Err", error |-> e]

\* Variant: the two amounts compared the other way round.
compare_reversed(a, b) ==
    LET c == partial_cmp(b.cost.subtotal_amount.amount,
                         a.cost.subtotal_amount.amount)
    IN  IF c = "None" THEN "Equal" ELSE c

\* The closure given to max_by: partial_cmp of the two subtotal amounts,
\* an incomparable pair counting as Equal.
compare(a, b) ==
    LET c == partial_cmp(a.cost.subtotal_amount.amount,
                         b.cost.subtotal_amount.amount)
    IN  IF c = "None" THEN "Equal" ELSE c

\* Variant: the maximum so far is kept unless the next element is greater.
max_by_fold_keep_first(x, y) == IF compare(x, y) = "Less" THEN y ELSE x

\* The step of Iterator::max_by: x is the maximum so far, y the next element.
max_by_fold(x, y) == IF compare(x, y) = "Greater" THEN x ELSE y

RECURSIVE reduce(_, _)
reduce(acc, rest) ==
    IF rest = <<>> THEN acc ELSE reduce(max_by_fold(acc, Head(rest)), Tail(rest))

\* input.cart().lines().iter().max_by(..): None on an empty cart.
max_by(lines) ==
    IF lines = <<>> THEN None ELSE Some(reduce(Head(lines), Tail(lines)))

\* Variant: any entry at all counts as the class looked for.
contains_any(classes, class) == classes /= <<>>

\* Variant: only the first entry is looked at.
contains_first_only(classes, class) == classes /= <<>> /\ classes[1] = class

\* discount_classes().contains(&class)
contains(classes, class) == \E i \in 1..Len(classes) : classes[i] = class

DefaultPercentage == 10

\* Variant: a value that does not parse counts as f64::default(), 0.0.
discount_percentage_parse_or_zero(metafield) ==
    IF metafield = None THEN F(10)
    ELSE IF ParseF64(Unwrap(metafield).value) = None THEN F(0)
    ELSE Unwrap(ParseF64(Unwrap(metafield).value))

\* metafield().and_then(|m| m.value().parse::<f64>().ok()).unwrap_or(10.0)
discount_percentage(metafield) ==
    IF metafield = None THEN F(DefaultPercentage)
    ELSE IF ParseF64(Unwrap(metafield).value) = None THEN F(DefaultPercentage)
    ELSE Unwrap(ParseF64(Unwrap(metafield).value))

Percentage(x) == [type |-> "Percentage", value |-> x]

\* Variant: the order discount carries the doubled percentage.
OrderDiscountsAdd_doubled(p) ==
    [type |-> "OrderDiscountsAdd",
     selection_strategy |-> "First",
     candidates |-> <<
        [targets |-> << [type |-> "OrderSubtotal",
                         excluded_cart_line_ids |-> <<>>] >>,
         message |-> Some(Display(Times2(p)) \o "% OFF ORDER"),
         value |-> [type |-> "Percentage", value |-> Times2(p)],
         conditions |-> None,
         associated_discount_code |-> None] >>]

OrderDiscountsAdd(p) ==
    [type |-> "OrderDiscountsAdd",
     selection_strategy |-> "First",
     candidates |-> <<
        [targets |-> << [type |-> "OrderSubtotal",
                         excluded_cart_line_ids |-> <<>>] >>,
         message |-> Some(Display(p) \o "% OFF ORDER"),
         value |-> Percentage(p),
         conditions |-> None,
         associated_discount_code |-> None] >>]

\* Variant: the product discount carries the percentage undoubled.
ProductDiscountsAdd_undoubled(max_cart_line, p) ==
    [type |-> "ProductDiscountsAdd",
     selection_strategy |-> "First",
     candidates |-> <<
        [targets |-> << [type |-> "CartLine",
                         id |-> max_cart_line.id,
                         quantity |-> None] >>,
         message |-> Some(Display(p) \o "% OFF PRODUCT"),
         value |-> [type |-> "Percentage", value |-> p],
         associated_discount_code |-> None] >>]

ProductDiscountsAdd(max_cart_line, p) ==
    [type |-> "ProductDiscountsAdd",
     selection_strategy |-> "First",
     candidates |-> <<
        [targets |-> << [type |-> "CartLine",
                         id |-> max_cart_line.id,
                         quantity |-> None] >>,
         message |-> Some(Display(Times2(p)) \o "% OFF PRODUCT"),
         value |-> Percentage(Times2(p)),
         associated_discount_code |-> None] >>]

has_order_discount_class(in) == contains(in.discount.discount_classes, "Order")

has_product_discount_class(in) ==
    contains(in.discount.discount_classes, "Product")

\* Variant: the product discount is pushed before the order discount.
operations_product_first(in, max_cart_line) ==
    LET p == discount_percentage(in.discount.metafield)
    IN  (IF has_product_discount_class(in)
         THEN <<ProductDiscountsAdd(max_cart_line, p)>> ELSE <<>>)
        \o (IF has_order_discount_class(in)
            THEN <<OrderDiscountsAdd(p)>> ELSE <<>>)

\* The operations pushed after the early returns, in push order.
operations(in, max_cart_line) ==
    LET p == discount_percentage(in.discount.metafield)
    IN  (IF has_order_discount_class(in)
         THEN <<OrderDiscountsAdd(p)>> ELSE <<>>)
        \o (IF has_product_discount_class(in)
            THEN <<ProductDiscountsAdd(max_cart_line, p)>> ELSE <<>>)

\* Variant: the classes are looked at before the cart.
generate_run_classes_first(in) ==
    LET max_cart_line == max_by(in.cart.lines)
    IN  IF ~has_order_discount_class(in) /\ ~has_product_discount_class(in)
        THEN Ok([operations |-> <<>>])
        ELSE IF max_cart_line = None THEN Err("No cart lines found")
        ELSE Ok([operations |-> operations(in, Unwrap(max_cart_line))])

\* Variant: a value that does not parse is propagated as an error.
generate_run_parse_error(in) ==
    LET max_cart_line == max_by(in.cart.lines)
        m == in.discount.metafield
    IN  IF max_cart_line = None THEN Err("No cart lines found")
        ELSE IF ~has_order_discount_class(in) /\ ~has_product_discount_class(in)
             THEN Ok([operations |-> <<>>])
        ELSE IF m /= None /\ ParseF64(Unwrap(m).value) = None
             THEN Err("invalid float literal")
        ELSE Ok([operations |-> operations(in, Unwrap(max_cart_line))])

cart_lines_discounts_generate_run(in) ==
    LET max_cart_line == max_by(in.cart.lines)
    IN  IF max_cart_line = None THEN Err("No cart lines found")
        ELSE IF ~has_order_discount_class(in) /\ ~has_product_discount_class(in)
             THEN Ok([operations |-> <<>>])
        ELSE Ok([operations |-> operations(in, Unwrap(max_cart_line))])

\* ------------------------------------------------------------ state machine
VARIABLES input, output

vars == <<input, output>>

\* The host has built an input and has not yet invoked the function.
Init ==
    /\ input \in Inputs
    /\ output = None

\* The host invokes the function once; it runs to completion.
Invoke ==
    /\ output = None
    /\ output' = Some(cart_lines_discounts_generate_run(input))
    /\ UNCHANGED input

Next == Invoke

Spec == Init /\ [][Next]_vars

\* ------------------------------------------------- vocabulary of the claims
Returned == output /= None

Res == Unwrap(output)

Lines == input.cart.lines

Classes == input.discount.discount_classes

Metafield == input.discount.metafield

OrderActive == \E i \in 1..Len(Classes) : Classes[i] = "Order"

ProductActive == \E i \in 1..Len(Classes) : Classes[i] = "Product"

Succeeded == Returned /\ Res.tag = "Ok"

Ops == Res.value.operations

AmountAt(i) == Lines[i].cost.subtotal_amount.amount

\* Every pair of subtotals of the cart is comparable.
Comparable == \A i \in 1..Len(Lines) : AmountAt(i).kind /= "nan"

\* The positions whose subtotal is >= the subtotal of every line of the cart.
MaxPositions ==
    { i \in 1..Len(Lines) :
        \A j \in 1..Len(Lines) :
            partial_cmp(AmountAt(i), AmountAt(j)) \in {"Greater", "Equal"} }

First(S) == CHOOSE i \in S : \A j \in S : i <= j

Last(S) == CHOOSE i \in S : \A j \in S : i >= j

\* The ids the product-discount operations of the result target.
ProductTargetIds ==
    { Ops[k].candidates[1].targets[1].id :
        k \in { n \in 1..Len(Ops) : Ops[n].type = "ProductDiscountsAdd" } }

\* The override is present and its text is not a number.
Unparsable == Metafield /= None /\ ParseF64(Unwrap(Metafield).value) = None

StripLeadingZero(ds) == IF ds /= <<>> /\ ds[1] = 0 THEN Tail(ds) ELSE ds

\* The base percentage p: the configured override, or the default 10.
BasePercentage ==
    IF Metafield = None \/ Unparsable THEN F(10)
    ELSE Unwrap(ParseF64(Unwrap(Metafield).value))

\* The decimal of a finite x exceeds f64::MAX, 1.7976931348623157e308.
AboveMax(ds, x) ==
    \/ Len(ds) + x - 1 > 308
    \/ /\ Len(ds) + x - 1 = 308
       /\ DigitsCmp(ds, <<1, 7, 9, 7, 6, 9, 3, 1, 3, 4, 8, 6, 2, 3, 1, 5, 7>>) > 0

\* y is x * 2.0 in f64 arithmetic, stated on the decimal expansions (of at
\* most 15 digits): the sign is kept, NaN, the infinities and the zeros are
\* unchanged, a finite x gives the decimal twice as large, and infinity when
\* that is beyond f64::MAX.
IsDouble(y, x) ==
    /\ y.neg = x.neg
    /\ x.kind /= "fin" => y = x
    /\ x.kind = "fin" =>
          LET twice == StripLeadingZero(DoubleDigits(x.digits))
          IN  IF AboveMax(twice, x.exp) THEN y.kind = "inf"
              ELSE /\ y.kind = "fin"
                   /\ Len(x.digits) <= 15
                   /\ y.digits \o [ i \in 1..(y.exp - x.exp) |-> 0 ] = twice
                         \o [ i \in 1..(x.exp - y.exp) |-> 0 ]

MetafieldIs(s) == Metafield = Some([value |-> s])

\* ----------------------------------------------------------------- C1
\* C1 as stated: when several cart lines share the maximum subtotal, the
\* product discount targets the first of them in cart order.
C1_FirstOfTiedMaxima ==
    (Succeeded /\ ProductActive /\ Cardinality(MaxPositions) >= 2)
        => ProductTargetIds = {Lines[First(MaxPositions)].id}

\* C1 as amended: when several cart lines of a cart of mutually comparable
\* subtotals share the maximum subtotal, the product discount targets the
\* last of them in cart order.
C1_LastOfTiedMaxima ==
    (Succeeded /\ ProductActive /\ Comparable /\ Cardinality(MaxPositions) >= 2)
        => ProductTargetIds = {Lines[Last(MaxPositions)].id}

C1_Witness ==
    /\ Succeeded /\ ProductActive /\ Comparable
    /\ Len(Lines) = 3
    /\ MaxPositions = {1, 3}
    /\ ProductTargetIds = {LineId(3)}

\* ----------------------------------------------------------------- C2
\* C2: an empty cart yields the error "No cart lines found" and no operation
\* list, for every class list and every override.
C2_EmptyCartIsError ==
    (Returned /\ Lines = <<>>)
        => /\ Res.tag = "Err"
           /\ Res.error = "No cart lines found"
           /\ "value" \notin DOMAIN Res

C2_Witness ==
    /\ Returned /\ Lines = <<>>
    /\ ~OrderActive /\ ~ProductActive
    /\ Unparsable
    /\ Res = Err("No cart lines found")

\* ----------------------------------------------------------------- C3
\* C3: a cart with at least one line always yields a successful result,
\* whatever the classes and the override (absent, a number, or not a number).
C3_NonEmptyCartSucceeds ==
    (Returned /\ Lines /= <<>>) => (Res.tag = "Ok" /\ "error" \notin DOMAIN Res)

C3_Witness ==
    /\ Returned /\ Lines /= <<>>
    /\ Unparsable /\ OrderActive
    /\ Res.tag = "Ok"

\* ----------------------------------------------------------------- C4
\* C4: with both classes active on a non-empty cart the result is exactly
\* [order-discount-add with percentage p, product-discount-add with
\* percentage 2p], p the override or the default 10.
C4_BothClassesOrderThenProduct ==
    (Returned /\ Lines /= <<>> /\ OrderActive /\ ProductActive)
        => /\ Res.tag = "Ok"
           /\ Len(Ops) = 2
           /\ Ops[1].type = "OrderDiscountsAdd"
           /\ Ops[2].type = "ProductDiscountsAdd"
           /\ Ops[1].candidates[1].value = [type |-> "Percentage", value |-> BasePercentage]
           /\ Ops[2].candidates[1].value.type = "Percentage"
           /\ IsDouble(Ops[2].candidates[1].value.value, BasePercentage)
           /\ MetafieldIs(<<"1", "5">>)
                => /\ Ops[1].candidates[1].value.value = F(15)
                   /\ Ops[2].candidates[1].value.value = F(30)

C4_Witness ==
    /\ Succeeded /\ OrderActive /\ ProductActive
    /\ MetafieldIs(<<"1", "5">>)
    /\ Len(Ops) = 2
    /\ Ops[1].candidates[1].message = {"15% OFF ORDER"}
    /\ Ops[2].candidates[1].message = {"30% OFF PRODUCT"}

\* ----------------------------------------------------------------- C5
\* C5: with Product active and Order not, on a non-empty cart, the result is
\* one product-discount-add: strategy first, one candidate, one cart-line
\* target without quantity, percentage 2p, message "<2p>% OFF PRODUCT".
C5_ProductOnly ==
    (Returned /\ Lines /= <<>> /\ ProductActive /\ ~OrderActive)
        => /\ Res.tag = "Ok"
           /\ Len(Ops) = 1
           /\ Ops[1].type = "ProductDiscountsAdd"
           /\ Ops[1].selection_strategy = "First"
           /\ Len(Ops[1].candidates) = 1
           /\ Len(Ops[1].candidates[1].targets) = 1
           /\ Ops[1].candidates[1].targets[1].type = "CartLine"
           /\ \E i \in 1..Len(Lines) :
                 Ops[1].candidates[1].targets[1].id = Lines[i].id
           /\ Ops[1].candidates[1].targets[1].quantity = {}
           /\ Ops[1].candidates[1].value.type = "Percentage"
           /\ IsDouble(Ops[1].candidates[1].value.value, BasePercentage)
           /\ Ops[1].candidates[1].message
                = {Display(Ops[1].candidates[1].value.value) \o "% OFF PRODUCT"}
           /\ (Metafield = None \/ Unparsable)
                => Ops[1].candidates[1].message = {"20% OFF PRODUCT"}
           /\ MetafieldIs(<<"1", "2", ".", "5">>)
                => Ops[1].candidates[1].message = {"25% OFF PRODUCT"}

C5_Witness ==
    /\ Succeeded /\ ProductActive /\ ~OrderActive
    /\ Len(Lines) = 2
    /\ AmountAt(1) = F(5) /\ AmountAt(2) = F(20)
    /\ Metafield = None
    /\ Len(Ops) = 1
    /\ Ops[1].candidates[1].targets[1].id = LineId(2)
    /\ Ops[1].candidates[1].value.value = F(20)
    /\ Ops[1].candidates[1].message = {"20% OFF PRODUCT"}

\* ----------------------------------------------------------------- C6
\* C6: with Order active and Product not, on a non-empty cart, the result is
\* one order-discount-add: strategy first, one candidate targeting the order
\* subtotal with no excluded line, percentage p, message "<p>% OFF ORDER".
C6_OrderOnly ==
    (Returned /\ Lines /= <<>> /\ OrderActive /\ ~ProductActive)
        => /\ Res.tag = "Ok"
           /\ Len(Ops) = 1
           /\ Ops[1].type = "OrderDiscountsAdd"
           /\ Ops[1].selection_strategy = "First"
           /\ Len(Ops[1].candidates) = 1
           /\ Ops[1].candidates[1].targets
                = << [type |-> "OrderSubtotal", excluded_cart_line_ids |-> <<>>] >>
           /\ Ops[1].candidates[1].value
                = [type |-> "Percentage", value |-> BasePercentage]
           /\ Ops[1].candidates[1].message
                = {Display(BasePercentage) \o "% OFF ORDER"}
           /\ (Metafield = None \/ Unparsable)
                => Ops[1].candidates[1].message = {"10% OFF ORDER"}
           /\ MetafieldIs(<<"1", "2", ".", "5">>)
                => Ops[1].candidates[1].message = {"12.5% OFF ORDER"}

C6_Witness ==
    /\ Succeeded /\ OrderActive /\ ~ProductActive
    /\ MetafieldIs(<<"1", "2", ".", "5">>)
    /\ Len(Ops) = 1
    /\ Ops[1].type = "OrderDiscountsAdd"
    /\ Ops[1].candidates[1].message = {"12.5% OFF ORDER"}

\* ----------------------------------------------------------------- C7
\* C7: a non-empty cart with neither Order nor Product active yields success
\* with an empty operation list.
C7_NeitherClassEmptyList ==
    (Returned /\ Lines /= <<>> /\ ~OrderActive /\ ~ProductActive)
        => Res = [tag |-> "Ok", value |-> [operations |-> <<>>]]

C7_Witness ==
    /\ Returned /\ Lines /= <<>>
    /\ Classes = <<"Shipping">>
    /\ MetafieldIs(<<"1", "5">>)
    /\ Res.tag = "Ok" /\ Ops = <<>>

\* ----------------------------------------------------------------- C8
\* C8: an override that is not a number gives the result the same input
\* gives with no override, both with order percentage 10 and product
\* percentage 20.
C8_UnparsableAsAbsent ==
    (Returned /\ Unparsable)
        => /\ Res = cart_lines_discounts_generate_run(
                        [input EXCEPT !.discount.metafield = None])
           /\ Res.tag = "Ok" =>
                \A k \in 1..Len(Ops) :
                    Ops[k].candidates[1].value.value
                        = IF Ops[k].type = "OrderDiscountsAdd" THEN F(10) ELSE F(20)

C8_Witness ==
    /\ Succeeded /\ MetafieldIs(<<"a", "b", "c">>)
    /\ OrderActive /\ ProductActive
    /\ Len(Ops) = 2
    /\ Ops[1].candidates[1].value.value = F(10)
    /\ Ops[2].candidates[1].value.value = F(20)

\* ----------------------------------------------------------------- C9
\* C9: in a cart of mutually comparable subtotals, the target of a
\* product-discount-add is the id of a line of the cart whose subtotal is
\* >= the subtotal of every other line.
C9_TargetIsAMaximum ==
    (Succeeded /\ Comparable)
        => \A id \in ProductTargetIds :
              \E i \in MaxPositions : Lines[i].id = id

C9_Witness ==
    /\ Succeeded /\ Comparable
    /\ Len(Lines) = 3
    /\ MaxPositions = {1}
    /\ ProductTargetIds = {LineId(1)}

\* ----------------------------------------------------------------- C10
\* C10: on a non-empty cart, two class lists with the same membership of
\* Order and of Product give equal results, and the number of operations is
\* the number of active classes among Order and Product.
C10_OnlyMembershipMatters ==
    (Returned /\ Lines /= <<>>)
        => /\ \A cs \in ClassLists :
                 ( /\ (\E i \in 1..Len(cs) : cs[i] = "Order") <=> OrderActive
                   /\ (\E i \in 1..Len(cs) : cs[i] = "Product") <=> ProductActive )
                 => cart_lines_discounts_generate_run(
                        [input EXCEPT !.discount.discount_classes = cs]) = Res
           /\ Res.tag = "Ok"
           /\ Len(Ops) = (IF OrderActive THEN 1 ELSE 0)
                          + (IF ProductActive THEN 1 ELSE 0)

C10_Witness ==
    /\ Succeeded
    /\ Classes = <<"Shipping", "Product">>
    /\ Len(Ops) = 1
    /\ cart_lines_discounts_generate_run(
          [input EXCEPT !.discount.discount_classes = <<"Product", "Product">>]) = Res

====
